---- MODULE Spec2Model ----
(***************************************************************************)
(* Frame scheduling of the useAnnotator hook (deepsilk-frontend).           *)
(*                                                                         *)
(* The repository holds several versions of src/hooks/useAnnotator.ts.    *)
(* `variant` says which one is built:                                      *)
(*   "clock"    interval timer, src/unnamed/part_003                        *)
(*   "clockOld" interval timer, src/unnamed/part_002                        *)
(*   "raf"      requestAnimationFrame loop, src/unnamed/part_000:71-268     *)
(*   "seek"     seek-driven batch, src/unnamed/part_001                     *)
(*   "count"    setTimeout chain counting frames, src/unnamed/part_000:1-69 *)
(*                                                                         *)
(* A handler is an operator from a state record to a state record, so that *)
(* the sequential code of a handler is a chain of LET steps; an action     *)
(* applies one handler to the current state.  An await is a suspension:    *)
(* the code before it is one handler, the code after it another.  Time is  *)
(* counted in sampling steps of 1/fps seconds.                             *)
(***************************************************************************)
EXTENDS Integers, FiniteSets, Sequences, Bags, TLC

\* Bounds of the model.  MaxSampled is the length the record of sampled
\* times is kept to.
MaxRuns == 2
MaxDur == 2
MaxPendingSeeked == 2
MaxTimeouts == 1
MaxCalls == 2
MaxSampled == MaxDur + 1
\* The frames a run of the frame-counting version is followed for.
MaxFrameIdx == MaxDur + 1
\* fps, in sampling steps per second.
Fps == 2

VARIABLES
  variant,               \* which version of the hook is built
  session,               \* inference.ts: the session singleton is loaded
  running,               \* useState(false)
  progress,              \* useState(0)
  isProcessingRef,       \* the busy flag
  isRunningRef,          \* raf / seek versions
  detectionsCache,       \* clock versions: the timestamps that have an entry
  lastDetectionsRef,     \* raf / seek versions: a detection list
  overlay,               \* the detection list the overlay canvas shows
  processingIntervalRef, \* 0 is undefined
  rafIdRef,              \* 0 is null
  seekHandlerRef,        \* 0 is null, else the run whose handleSeeked it holds
  cleanupRef,            \* 0 is null, else the run whose closure it holds
  intervals,             \* active setInterval timers: [id, run]
  timeouts,              \* pending setTimeout callbacks of handleSeeked, per run
  rafs,                  \* pending animation frames: [id, run]
  listeners,             \* listeners attached to the video: [type, run]
  video,                 \* the playback surface
  pendingSeeked,         \* seeked events queued by the playback surface
  calls,                 \* suspended ticks, a bag of [run, stage, res]
  suspended,             \* runClient invocations at an await: [run, at]
  nRuns,                 \* runClient calls made so far
  stopped,               \* cleanup was called and no run was started since
  last,                  \* the last step taken and what it came to
  frameIdx,              \* count version: frames processed, per run
  totalSteps,            \* count version: frames expected, per run
  sampled,               \* seek version: the playback times inference was
                         \* dispatched at since runClient was called
  args,                  \* the call of a function of utils/nms.ts or
                         \* services/inference.ts that is looked at by itself
  result,                \* what that call returned
  server,                \* App.onServer: the remote annotation request
  geom,                  \* the displayed video box and the overlay canvas
  annot                  \* components/YoloVideoAnnotator.tsx

hookVars == <<variant, session, running, progress, isProcessingRef,
              isRunningRef, detectionsCache, lastDetectionsRef, overlay,
              processingIntervalRef, rafIdRef, seekHandlerRef, cleanupRef,
              intervals, timeouts, rafs, listeners, video, pendingSeeked,
              calls, suspended, nRuns, stopped, last, frameIdx, totalSteps,
              sampled>>
\* The state of the page outside the hook, and its value while that part of
\* the page is not looked at.
pageVars == <<server, geom, annot>>
vars == <<hookVars, args, result, pageVars>>
Unmounted == [at |-> "unmounted"]
PageIdle == server = Unmounted /\ geom = Unmounted /\ annot = Unmounted

Variants == {"clock", "clockOld", "raf", "seek", "count"}
ClockVariants == {"clock", "clockOld"}
Runs == 1..MaxRuns
\* A detection list is kept as its being empty or not.  The entries of
\* detectionsCache are never read, only counted, so the cache is kept as the
\* set of its keys.
DetLists == {"empty", "boxes"}
NoResult == "empty"
EmptyCache == {}

Min(a, b) == IF a < b THEN a ELSE b
Max(a, b) == IF a > b THEN a ELSE b
\* Math.round(a / b) for a >= 0, b > 0
Round(a, b) == (2 * a + b) \div (2 * b)
\* The smallest positive integer not in `used`: a fresh timer / frame / call id.
FreshId(used) == CHOOSE i \in 1..(Cardinality(used) + 1) :
                    /\ i \notin used
                    /\ \A j \in 1..(i - 1) : j \in used

\* The state as one record, and its commitment to the variables.
State ==
  [variant |-> variant, session |-> session, running |-> running,
   progress |-> progress, isProcessingRef |-> isProcessingRef,
   isRunningRef |-> isRunningRef, detectionsCache |-> detectionsCache,
   lastDetectionsRef |-> lastDetectionsRef, overlay |-> overlay,
   processingIntervalRef |-> processingIntervalRef, rafIdRef |-> rafIdRef,
   seekHandlerRef |-> seekHandlerRef, cleanupRef |-> cleanupRef,
   intervals |-> intervals, timeouts |-> timeouts, rafs |-> rafs,
   listeners |-> listeners, video |-> video, pendingSeeked |-> pendingSeeked,
   calls |-> calls, suspended |-> suspended, nRuns |-> nRuns,
   stopped |-> stopped, last |-> last, frameIdx |-> frameIdx,
   totalSteps |-> totalSteps, sampled |-> sampled]

Assign(s) ==
  /\ BagCardinality(s.calls) <= MaxCalls
  /\ \A r \in Runs : s.timeouts[r] <= MaxTimeouts
  /\ \A r \in Runs : s.frameIdx[r] <= MaxFrameIdx
  /\ variant' = s.variant
  /\ session' = s.session
  /\ running' = s.running
  /\ progress' = s.progress
  /\ isProcessingRef' = s.isProcessingRef
  /\ isRunningRef' = s.isRunningRef
  /\ detectionsCache' = s.detectionsCache
  /\ lastDetectionsRef' = s.lastDetectionsRef
  /\ overlay' = s.overlay
  /\ processingIntervalRef' = s.processingIntervalRef
  /\ rafIdRef' = s.rafIdRef
  /\ seekHandlerRef' = s.seekHandlerRef
  /\ cleanupRef' = s.cleanupRef
  /\ intervals' = s.intervals
  /\ timeouts' = s.timeouts
  /\ rafs' = s.rafs
  /\ listeners' = s.listeners
  /\ video' = s.video
  /\ pendingSeeked' = s.pendingSeeked
  /\ calls' = s.calls
  /\ suspended' = s.suspended
  /\ nRuns' = s.nRuns
  /\ stopped' = s.stopped
  /\ last' = s.last
  /\ frameIdx' = s.frameIdx
  /\ totalSteps' = s.totalSteps
  /\ sampled' = s.sampled

\* A step of the hook: nothing else of the page changes.
Commit(s) == Assign(s) /\ UNCHANGED <<args, result, pageVars>>

\* What the step being taken came to, recorded for the properties; only the
\* outcomes in Recorded are told apart.
Recorded == {"busy", "rejected"}
Step(s, ev) == [s EXCEPT !.last = IF ev \in Recorded THEN ev ELSE "other"]
Out(s, o) == IF o \in Recorded THEN [s EXCEPT !.last = o] ELSE s

----------------------------------------------------------------------------
\* The playback surface (HTMLVideoElement).

\* video.duration is NaN until the metadata of the media is loaded.
NaN == -1
DurationOf(v) == IF v.meta THEN v.duration ELSE NaN

\* video.ended
Ended(v) == v.ready /\ v.currentTime >= v.duration

\* Setting video.currentTime: the position changes at once and a seeked event
\* follows; a seek that overtakes MaxPendingSeeked earlier ones aborts the
\* oldest, which then fires no seeked.  Without metadata nothing is sought.
SetCurrentTime(s, t) ==
  IF ~s.video.meta THEN s
  ELSE [s EXCEPT !.video.currentTime = t,
                 !.pendingSeeked = Min(s.pendingSeeked + 1, MaxPendingSeeked)]

\* video.pause(): the pause event is delivered by the action that calls this.
PauseVideo(s) == [s EXCEPT !.video.paused = TRUE]
\* video.play(): playback that has ended restarts from the beginning.
PlayVideo(s) ==
  LET s1 == IF Ended(s.video) THEN SetCurrentTime(s, 0) ELSE s
  IN  [s1 EXCEPT !.video.paused = FALSE]

----------------------------------------------------------------------------
\* Inference calls and timers.

\* await runOnnx(...): the tick is suspended until the call settles.
Call(r, stage, res) == [run |-> r, stage |-> stage, res |-> res]
\* runOnnx without a session returns at once, before anything of the engine
\* is touched: such a call is at stage "noSession".
StageOfEngineAlways(s) == "onnx"
StageOf(s) == IF s.session THEN "onnx" ELSE "noSession"
Dispatch(s, r) ==
  LET s1 == [s EXCEPT !.calls = @ (+) SetToBag({Call(r, StageOf(s), NoResult)})]
  IN  Out(IF s.variant = "seek" /\ Len(s.sampled) < MaxSampled
          THEN [s1 EXCEPT !.sampled = Append(@, s.video.currentTime)]
          ELSE s1, "dispatch")

EndCall(s, c) == [s EXCEPT !.calls = @ (-) SetToBag({c})]

\* processingIntervalRef.current = window.setInterval(captureAndProcess, ...)
SetInterval(s, r) ==
  LET id == FreshId({t.id : t \in s.intervals} \cup {s.processingIntervalRef})
  IN  [s EXCEPT !.intervals = @ \cup {[id |-> id, run |-> r]},
                !.processingIntervalRef = id]

\* window.clearInterval(id)
ClearInterval(s, id) == [s EXCEPT !.intervals = {t \in @ : t.id # id}]

----------------------------------------------------------------------------
\* Clock-driven versions (part_003 "clock", part_002 "clockOld").

\* captureAndProcess with the busy test left out.
CaptureAndProcessNoBusyTest(s, r) ==
  IF s.video.paused \/ Ended(s.video) THEN Out(s, "gate")
  ELSE Dispatch([s EXCEPT !.isProcessingRef = TRUE], r)

\* captureAndProcess up to its await runOnnx.
CaptureAndProcess(s, r) ==
  IF s.video.paused \/ Ended(s.video) THEN Out(s, "gate")
  ELSE IF s.isProcessingRef THEN Out(s, "busy")
  ELSE Dispatch([s EXCEPT !.isProcessingRef = TRUE], r)

\* Progress of the clock versions: processed timestamps / duration.
ClockProgress(s) ==
  LET n == Cardinality(s.detectionsCache)
      d == DurationOf(s.video)
  IN  IF d = NaN THEN IF s.variant = "clock" THEN s.progress ELSE NaN
      ELSE IF d = 0 THEN IF s.variant = "clock" THEN s.progress ELSE 100
      ELSE Min(100, Round(100 * n, d))

\* captureAndProcess from the result of runOnnx to its await import(draw).
CaptureResume(s, c, res) ==
  LET s1  == [s EXCEPT !.detectionsCache = @ \cup {s.video.currentTime}]
      s2  == IF s.variant = "clock" THEN [s1 EXCEPT !.overlay = NoResult] ELSE s1
  IN  [s2 EXCEPT !.calls = (@ (-) SetToBag({c}))
                              (+) SetToBag({Call(c.run, "import", res)})]

\* captureAndProcess after import(draw): draw, progress, finally.
CaptureFinish(s, c) ==
  LET s1 == [s EXCEPT !.overlay = c.res]
      s2 == [s1 EXCEPT !.progress = ClockProgress(s1)]
  IN  EndCall([s2 EXCEPT !.isProcessingRef = FALSE], c)

\* the catch of captureAndProcess with the release of the busy flag left out.
CaptureFailKeepsBusy(s, c) == EndCall(s, c)

\* captureAndProcess when runOnnx rejects: catch, finally.
CaptureFail(s, c) == EndCall([s EXCEPT !.isProcessingRef = FALSE], c)

\* handleSeeked: setTimeout(..., 100)
HandleSeekedClock(s, r) == [s EXCEPT !.timeouts[r] = @ + 1]

\* handlePlay
HandlePlay(s, r) ==
  IF s.processingIntervalRef = 0 THEN SetInterval(s, r) ELSE s

\* if (processingIntervalRef.current !== undefined) { clearInterval; = undefined }
ClearIntervalRef(s) ==
  IF s.processingIntervalRef # 0
  THEN [ClearInterval(s, s.processingIntervalRef) EXCEPT !.processingIntervalRef = 0]
  ELSE s

\* handlePause
HandlePause(s, r) == ClearIntervalRef(s)

ListenersOf(r) == {[type |-> ty, run |-> r] : ty \in {"seeked", "play", "pause"}}

\* runClient after await loadSession().
RunClientClock(s, r) ==
  LET s1 == [s EXCEPT !.running = TRUE, !.progress = 0,
                      !.detectionsCache = EmptyCache]
      s2 == IF s.variant = "clock" /\ s1.processingIntervalRef # 0
            THEN ClearInterval(s1, s1.processingIntervalRef) ELSE s1
      s3 == SetInterval(s2, r)
      s4 == [s3 EXCEPT !.listeners = @ \cup ListenersOf(r), !.cleanupRef = r]
  IN  IF s4.video.ready THEN CaptureAndProcess(s4, r) ELSE s4

\* cleanupRef.current()
RunCleanupRef(s) ==
  LET s1 == ClearIntervalRef(s)
  IN  [s1 EXCEPT !.listeners = @ \ ListenersOf(s.cleanupRef)]

\* cleanup
CleanupClock(s) ==
  LET s1 == [s EXCEPT !.running = FALSE, !.progress = 0,
                      !.isProcessingRef = FALSE]
      s2 == ClearIntervalRef(s1)
      s3 == IF s2.cleanupRef # 0
            THEN [RunCleanupRef(s2) EXCEPT !.cleanupRef = 0] ELSE s2
  IN  [s3 EXCEPT !.detectionsCache = EmptyCache, !.overlay = NoResult]

----------------------------------------------------------------------------
\* Display-loop version (part_000:71-268, "raf").

\* rafIdRef.current = window.requestAnimationFrame(loop)
RequestFrame(s, r) ==
  LET id == FreshId({f.id : f \in s.rafs} \cup {s.rafIdRef})
  IN  [s EXCEPT !.rafs = @ \cup {[id |-> id, run |-> r]}, !.rafIdRef = id]

\* if (rafIdRef.current !== null) { cancelAnimationFrame; = null }
CancelFrameRef(s) ==
  IF s.rafIdRef # 0
  THEN [s EXCEPT !.rafs = {f \in @ : f.id # s.rafIdRef}, !.rafIdRef = 0]
  ELSE s

\* runClient up to await loadSession(): stop any previous run.
RunClientRafEntry(s, r) ==
  [CancelFrameRef(s) EXCEPT !.isRunningRef = FALSE, !.isProcessingRef = FALSE,
                            !.lastDetectionsRef = NoResult]

\* runClient from loadSession to await video.play().
RunClientRafLoaded(s, r) ==
  LET s1 == [s EXCEPT !.running = TRUE, !.progress = 0, !.isRunningRef = TRUE]
      s2 == PlayVideo(SetCurrentTime(s1, 0))
  IN  [s2 EXCEPT !.suspended = @ \cup {[run |-> r, at |-> "play"]}]

\* runClient after video.play(): start the animation loop.
RunClientRafPlayed(s, r) == RequestFrame(s, r)

\* loop after await processFrame().
LoopTail(s, r) == IF s.isRunningRef THEN RequestFrame(s, r) ELSE s

\* loop, entered from an animation frame, up to the await inside processFrame
\* (or to its own end when processFrame returns at once).
Loop(s, r) ==
  IF ~s.isRunningRef THEN Out(s, "gate")
  ELSE IF Ended(s.video)
  THEN Out([s EXCEPT !.isRunningRef = FALSE, !.running = FALSE], "ended")
  ELSE IF s.video.paused THEN LoopTail(Out(s, "gate"), r)
  ELSE IF s.isProcessingRef THEN LoopTail(Out(s, "busy"), r)
  ELSE Dispatch([s EXCEPT !.isProcessingRef = TRUE], r)

\* Progress of the raf and seek versions: currentTime / duration.
TimeProgress(s) ==
  LET d == DurationOf(s.video)
  IN  IF d = NaN \/ d = 0
      THEN IF s.variant = "raf" THEN s.progress ELSE 0
      ELSE Min(100, Round(100 * s.video.currentTime, d))

\* processFrame storing every result, the empty one too.
ProcessFrameResumeOverwrites(s, c, res) ==
  LET s1  == [s EXCEPT !.lastDetectionsRef = res]
      s2  == [s1 EXCEPT !.overlay = s1.lastDetectionsRef]
      s3  == [s2 EXCEPT !.progress = TimeProgress(s2)]
  IN  LoopTail(EndCall([s3 EXCEPT !.isProcessingRef = FALSE], c), c.run)

\* processFrame after runOnnx resolves, then the rest of loop.
ProcessFrameResume(s, c, res) ==
  LET s1  == IF res # "empty" THEN [s EXCEPT !.lastDetectionsRef = res] ELSE s
      s2  == [s1 EXCEPT !.overlay = s1.lastDetectionsRef]
      s3  == [s2 EXCEPT !.progress = TimeProgress(s2)]
  IN  LoopTail(EndCall([s3 EXCEPT !.isProcessingRef = FALSE], c), c.run)

\* processFrame when runOnnx rejects (catch, finally), then the rest of loop.
ProcessFrameFail(s, c) ==
  LoopTail(EndCall([s EXCEPT !.isProcessingRef = FALSE], c), c.run)

\* cleanup
CleanupRaf(s) ==
  LET s1 == [s EXCEPT !.isRunningRef = FALSE, !.isProcessingRef = FALSE]
      s2 == CancelFrameRef(s1)
  IN  [s2 EXCEPT !.running = FALSE, !.progress = 0,
                 !.lastDetectionsRef = NoResult, !.overlay = NoResult]

----------------------------------------------------------------------------
\* Frame-counting version (part_000:1-69, "count").

\* totalSteps = Math.max(1, Math.floor((video.duration || 1) * fps))
TotalSteps(v) ==
  LET d == DurationOf(v)
  IN  IF d = NaN \/ d = 0 THEN Max(1, Fps) ELSE Max(1, d)

\* runClient from loadSession to await video.play().
RunClientCountLoaded(s, r) ==
  LET s1 == [s EXCEPT !.running = TRUE, !.progress = 0,
                      !.totalSteps[r] = TotalSteps(s.video),
                      !.frameIdx[r] = 0]
      s2 == PlayVideo(SetCurrentTime(s1, 0))
  IN  [s2 EXCEPT !.suspended = @ \cup {[run |-> r, at |-> "play"]}]

\* tick up to its await runOnnx.
Tick(s, r) ==
  IF s.video.paused \/ Ended(s.video)
  THEN Out([s EXCEPT !.running = FALSE], "ended")
  ELSE Dispatch(s, r)

\* tick from the result of runOnnx to its await import(draw).
TickResume(s, c, res) ==
  [s EXCEPT !.calls = (@ (-) SetToBag({c}))
                        (+) SetToBag({Call(c.run, "import", res)})]

\* Progress of the count version: frameIdx / totalSteps.
CountProgress(s, r) ==
  Min(100, Round(100 * s.frameIdx[r], s.totalSteps[r]))

\* tick after import(draw): draw, count the frame, progress, setTimeout(tick).
TickFinish(s, c) ==
  LET s1 == [s EXCEPT !.overlay = c.res, !.frameIdx[c.run] = @ + 1]
      s2 == [s1 EXCEPT !.progress = CountProgress(s1, c.run)]
  IN  EndCall([s2 EXCEPT !.timeouts[c.run] = @ + 1], c)

\* tick when runOnnx rejects: nothing catches, the chain of ticks stops.
TickFail(s, c) == EndCall(s, c)

----------------------------------------------------------------------------
\* Seek-driven version (part_001, "seek").

\* if (seekHandlerRef.current) { removeEventListener("seeked", ...); = null }
RemoveSeekHandler(s) ==
  IF s.seekHandlerRef # 0
  THEN [s EXCEPT !.listeners = @ \ {[type |-> "seeked", run |-> s.seekHandlerRef]},
                 !.seekHandlerRef = 0]
  ELSE s

\* runClient up to await loadSession(): clean up any previous run.
RunClientSeekEntry(s, r) ==
  RemoveSeekHandler([s EXCEPT !.isRunningRef = FALSE, !.isProcessingRef = FALSE,
                              !.lastDetectionsRef = NoResult, !.progress = 0])

\* processCurrentFrame with the busy test left out.
ProcessCurrentFrameNoBusyTest(s, r) ==
  IF ~s.isRunningRef THEN Out(s, "gate")
  ELSE IF DurationOf(s.video) = 0 THEN Out(s, "gate")
  ELSE IF s.video.meta /\ s.video.currentTime >= s.video.duration
  THEN Out([s EXCEPT !.isRunningRef = FALSE, !.running = FALSE], "ended")
  ELSE Dispatch([s EXCEPT !.isProcessingRef = TRUE], r)

\* processCurrentFrame up to its await runOnnx.
ProcessCurrentFrame(s, r) ==
  IF ~s.isRunningRef THEN Out(s, "gate")
  ELSE IF DurationOf(s.video) = 0 THEN Out(s, "gate")
  ELSE IF s.video.meta /\ s.video.currentTime >= s.video.duration
  THEN Out([s EXCEPT !.isRunningRef = FALSE, !.running = FALSE], "ended")
  ELSE IF s.isProcessingRef THEN Out(s, "busy")
  ELSE Dispatch([s EXCEPT !.isProcessingRef = TRUE], r)

\* processCurrentFrame after runOnnx resolves.
ProcessCurrentFrameResume(s, c, res) ==
  LET s1   == [s EXCEPT !.lastDetectionsRef = res, !.overlay = res]
      s2   == [s1 EXCEPT !.progress = TimeProgress(s1)]
      next == s2.video.currentTime + 1
      s3   == IF s2.video.meta /\ next < s2.video.duration /\ s2.isRunningRef
              THEN Out(SetCurrentTime(s2, next), "seek")
              ELSE [s2 EXCEPT !.isRunningRef = FALSE, !.running = FALSE]
  IN  EndCall([s3 EXCEPT !.isProcessingRef = FALSE], c)

\* the catch of processCurrentFrame that only logs, as the clock versions do.
ProcessCurrentFrameFailSkips(s, c) ==
  EndCall([s EXCEPT !.isProcessingRef = FALSE], c)

\* processCurrentFrame when runOnnx rejects: catch, finally.
ProcessCurrentFrameFail(s, c) ==
  EndCall([s EXCEPT !.isRunningRef = FALSE, !.running = FALSE,
                    !.isProcessingRef = FALSE], c)

\* handleSeeked
HandleSeeked(s, r) ==
  IF ~s.isRunningRef THEN Out(s, "gate") ELSE ProcessCurrentFrame(s, r)

\* handleLoadedData
HandleLoadedData(s, r) ==
  LET s1 == [s EXCEPT !.listeners = @ \ {[type |-> "loadeddata", run |-> r]}]
  IN  IF ~s1.isRunningRef THEN Out(s1, "gate") ELSE ProcessCurrentFrame(s1, r)

\* runClient after await loadSession().
RunClientSeekLoaded(s, r) ==
  LET s1 == [s EXCEPT !.isRunningRef = TRUE, !.running = TRUE,
                      !.lastDetectionsRef = NoResult, !.seekHandlerRef = r,
                      !.listeners = @ \cup {[type |-> "seeked", run |-> r]}]
      s2 == SetCurrentTime(PauseVideo(s1), 0)
  IN  IF s2.video.ready THEN ProcessCurrentFrame(s2, r)
      ELSE [s2 EXCEPT !.listeners = @ \cup {[type |-> "loadeddata", run |-> r]}]

\* cleanup
CleanupSeek(s) ==
  LET s1 == [s EXCEPT !.isRunningRef = FALSE, !.isProcessingRef = FALSE]
      s2 == RemoveSeekHandler(s1)
  IN  [s2 EXCEPT !.running = FALSE, !.progress = 0,
                 !.lastDetectionsRef = NoResult, !.overlay = NoResult]

----------------------------------------------------------------------------
\* Event delivery.

\* The listener [type, r] of the version built.
Handle(s, type, r) ==
  IF s.variant \in ClockVariants
  THEN CASE type = "seeked" -> HandleSeekedClock(s, r)
         [] type = "play"   -> HandlePlay(s, r)
         [] type = "pause"  -> HandlePause(s, r)
         [] OTHER           -> s
  ELSE CASE type = "seeked"     -> HandleSeeked(s, r)
         [] type = "loadeddata" -> HandleLoadedData(s, r)
         [] OTHER               -> s

\* An event of `type` runs the listeners attached for it, in the order they
\* were added (a later run's listeners were added later), from run r on.
RECURSIVE Deliver(_, _, _)
Deliver(s, type, r) ==
  IF r > MaxRuns THEN s
  ELSE Deliver(IF [type |-> type, run |-> r] \in s.listeners
               THEN Handle(s, type, r) ELSE s, type, r + 1)

\* Playback reaching the end of the media: paused becomes true and a pause
\* event is fired.
ReachEnd(s) ==
  IF Ended(s.video) /\ ~s.video.paused
  THEN Deliver(PauseVideo(s), "pause", 1) ELSE s

----------------------------------------------------------------------------
\* The versions' runClient and cleanup.

RunClientEntry(s, r) ==
  CASE s.variant = "raf"  -> RunClientRafEntry(s, r)
    [] s.variant = "seek" -> RunClientSeekEntry(s, r)
    [] OTHER              -> s

RunClientLoaded(s, r) ==
  CASE s.variant = "raf"   -> RunClientRafLoaded(s, r)
    [] s.variant = "seek"  -> RunClientSeekLoaded(s, r)
    [] s.variant = "count" -> RunClientCountLoaded(s, r)
    [] OTHER               -> RunClientClock(s, r)

\* runClient after await video.play().
RunClientPlayed(s, r) ==
  IF s.variant = "count" THEN Tick(s, r) ELSE RunClientRafPlayed(s, r)

\* The callback of a setTimeout.
TimeoutCallback(s, r) ==
  IF s.variant = "count" THEN Tick(s, r) ELSE CaptureAndProcess(s, r)

CleanupOf(s) ==
  CASE s.variant = "raf"  -> CleanupRaf(s)
    [] s.variant = "seek" -> CleanupSeek(s)
    [] OTHER              -> CleanupClock(s)

\* The tick of call c after runOnnx resolved with the list res / rejected.
Resume(s, c, res) ==
  CASE s.variant = "raf"   -> ProcessFrameResume(s, c, res)
    [] s.variant = "seek"  -> ProcessCurrentFrameResume(s, c, res)
    [] s.variant = "count" -> TickResume(s, c, res)
    [] OTHER               -> CaptureResume(s, c, res)

Fail(s, c) ==
  CASE s.variant = "raf"   -> ProcessFrameFail(s, c)
    [] s.variant = "seek"  -> ProcessCurrentFrameFail(s, c)
    [] s.variant = "count" -> TickFail(s, c)
    [] OTHER               -> CaptureFail(s, c)

\* The tick of call c after import(draw) resolved.
Finish(s, c) ==
  IF s.variant = "count" THEN TickFinish(s, c) ELSE CaptureFinish(s, c)

----------------------------------------------------------------------------
\* Initial state: the hook is mounted, a video is chosen, nothing has run.

Durations == {0, MaxDur}

Mounted ==
  /\ variant \in Variants
  /\ session = FALSE
  /\ running = FALSE
  /\ progress = 0
  /\ isProcessingRef = FALSE
  /\ isRunningRef = FALSE
  /\ detectionsCache = EmptyCache
  /\ lastDetectionsRef = NoResult
  /\ overlay = NoResult
  /\ processingIntervalRef = 0
  /\ rafIdRef = 0
  /\ seekHandlerRef = 0
  /\ cleanupRef = 0
  /\ intervals = {}
  /\ timeouts = [r \in Runs |-> 0]
  /\ rafs = {}
  /\ listeners = {}
  /\ video \in {v \in [paused : {TRUE}, currentTime : {0},
                        duration : Durations, ready : BOOLEAN, meta : BOOLEAN] :
                   v.ready => v.meta}
  /\ pendingSeeked = 0
  /\ calls = EmptyBag
  /\ suspended = {}
  /\ nRuns = 0
  /\ stopped = FALSE
  /\ last = "other"
  /\ frameIdx = [r \in Runs |-> 0]
  /\ totalSteps = [r \in Runs |-> 0]
  /\ sampled = <<>>

\* No function is looked at by itself.
NoCall == [fn |-> "none"]

Init == Mounted /\ args = NoCall /\ result = NoCall /\ PageIdle

----------------------------------------------------------------------------
\* Actions.

\* runClient(fps, conf, iou) is called; with the session loaded, loadSession
\* returns at once and runClient goes on in the same task.
RunClientCall ==
  /\ nRuns < MaxRuns
  /\ LET r  == nRuns + 1
         s1 == [Step(State, "runClient") EXCEPT !.nRuns = r, !.stopped = FALSE,
                                                !.sampled = <<>>]
         s2 == RunClientEntry(s1, r)
     IN  Commit(IF s2.session THEN RunClientLoaded(s2, r)
                ELSE [s2 EXCEPT !.suspended = @ \cup {[run |-> r, at |-> "load"]}])

\* loadSession() of runClient r settles.
LoadSessionDone(r) ==
  /\ [run |-> r, at |-> "load"] \in suspended
  /\ LET s1 == [Step(State, "runClient") EXCEPT
                  !.suspended = @ \ {[run |-> r, at |-> "load"]},
                  !.session = TRUE, !.stopped = FALSE]
     IN  Commit(RunClientLoaded(s1, r))

\* loadSession() of runClient r fails: the catch leaves the session null and
\* loadSession resolves.
LoadSessionFails(r) ==
  /\ [run |-> r, at |-> "load"] \in suspended
  /\ LET s1 == [Step(State, "runClient") EXCEPT
                  !.suspended = @ \ {[run |-> r, at |-> "load"]},
                  !.session = FALSE, !.stopped = FALSE]
     IN  Commit(RunClientLoaded(s1, r))

\* video.play() of runClient r settles (raf, count).
PlayResolved(r) ==
  /\ [run |-> r, at |-> "play"] \in suspended
  /\ LET s1 == [Step(State, "runClient") EXCEPT
                  !.suspended = @ \ {[run |-> r, at |-> "play"]}]
     IN  Commit(RunClientPlayed(s1, r))

\* An interval timer fires.
IntervalTick(t) ==
  /\ t \in intervals
  /\ Commit(CaptureAndProcess(Step(State, "tick"), t.run))

\* A timeout set by run r fires: the 100 ms one of handleSeeked (clock), the
\* next tick (count).
TimeoutFires(r) ==
  /\ timeouts[r] > 0
  /\ LET s1 == [Step(State, "tick") EXCEPT !.timeouts[r] = @ - 1]
     IN  Commit(TimeoutCallback(s1, r))

\* An animation frame fires.
FrameFires(f) ==
  /\ f \in rafs
  /\ LET s1 == [Step(State, "tick") EXCEPT !.rafs = @ \ {f}]
     IN  Commit(Loop(s1, f.run))

\* The playback surface acknowledges a seek.
SeekedEvent ==
  /\ pendingSeeked > 0
  /\ LET s1 == [Step(State, "env") EXCEPT !.pendingSeeked = @ - 1]
     IN  Commit(Deliver(s1, "seeked", 1))

\* A second seek made the playback surface abort the one before it.
SeekAborted ==
  /\ pendingSeeked > 1
  /\ Commit([Step(State, "env") EXCEPT !.pendingSeeked = @ - 1])

\* The playback surface has the metadata of the media: duration is known.
LoadedMetadataEvent ==
  /\ ~video.meta
  /\ Commit([Step(State, "env") EXCEPT !.video.meta = TRUE])

\* The playback surface has the first frame.
LoadedDataEvent ==
  /\ video.meta /\ ~video.ready
  /\ LET s1 == [Step(State, "env") EXCEPT !.video.ready = TRUE]
     IN  Commit(ReachEnd(Deliver(s1, "loadeddata", 1)))

\* runOnnx of call c resolves with the detection list res.
RunOnnxResolves(c, res) ==
  /\ BagIn(c, calls) /\ c.stage = "onnx"
  /\ Commit(Resume(Step(State, "resolved"), c, res))

\* runOnnx of call c, made without a session, resolves with no detections
\* (part_008) or with synthetic ones (part_009, src/services/inference.ts).
RunOnnxNoSession(c, res) ==
  /\ BagIn(c, calls) /\ c.stage = "noSession"
  /\ Commit(Resume(Step(State, "resolved"), c, res))

\* runOnnx of call c rejects.
RunOnnxRejects(c) ==
  /\ BagIn(c, calls) /\ c.stage = "onnx"
  /\ Commit(Fail(Step(State, "rejected"), c))

\* import("../utils/draw") of call c resolves (clock, count).
ImportResolves(c) ==
  /\ BagIn(c, calls) /\ c.stage = "import"
  /\ Commit(Finish(Step(State, "imported"), c))

\* cleanup() is called (the count version has none).
Cleanup ==
  /\ variant # "count"
  /\ Commit([CleanupOf(Step(State, "cleanup")) EXCEPT !.stopped = TRUE])

\* The user (or App.onLocal) starts playback.
UserPlay ==
  /\ video.paused
  /\ Commit(ReachEnd(Deliver(PlayVideo(Step(State, "env")), "play", 1)))

\* The user pauses playback.
UserPause ==
  /\ ~video.paused
  /\ Commit(Deliver(PauseVideo(Step(State, "env")), "pause", 1))

\* Playback advances by one sampling step.
Advance ==
  /\ ~video.paused /\ video.ready /\ video.currentTime < video.duration
  /\ LET s1 == [Step(State, "env") EXCEPT !.video.currentTime = @ + 1]
     IN  Commit(ReachEnd(s1))

\* The user seeks on the playback surface.
UserSeek(t) ==
  /\ video.meta /\ t \in 0..video.duration /\ t # video.currentTime
  /\ Commit(ReachEnd(SetCurrentTime(Step(State, "env"), t)))

\* The steps every version has.
Common ==
  \/ \E r \in Runs : LoadSessionDone(r)
  \/ SeekedEvent
  \/ SeekAborted
  \/ LoadedMetadataEvent
  \/ LoadedDataEvent
  \/ \E c \in BagToSet(calls), res \in DetLists : RunOnnxResolves(c, res)
  \/ \E c \in BagToSet(calls) : RunOnnxRejects(c)
  \/ Cleanup
  \/ UserPlay
  \/ UserPause
  \/ Advance
  \/ \E t \in 0..MaxDur : UserSeek(t)

\* The steps of the clock versions.
ClockSteps ==
  \/ \E t \in intervals : IntervalTick(t)
  \/ \E r \in Runs : TimeoutFires(r)
  \/ \E c \in BagToSet(calls) : ImportResolves(c)

\* The steps of the display-loop version.
RafSteps ==
  \/ \E r \in Runs : PlayResolved(r)
  \/ \E f \in rafs : FrameFires(f)

\* The first runClient call of the page.
FirstRunClientCall == nRuns = 0 /\ RunClientCall

Next == RunClientCall \/ Common \/ ClockSteps \/ RafSteps
NextClock == RunClientCall \/ Common \/ ClockSteps
NextRaf == RunClientCall \/ Common \/ RafSteps
NextSeek == RunClientCall \/ Common
NextOneRun == FirstRunClientCall \/ Common \/ ClockSteps \/ RafSteps

\* Any version, any number of runs up to MaxRuns.
Spec == Init /\ [][Next]_vars
\* One version each.
InitClock == Init /\ variant = "clock"
InitClockOld == Init /\ variant = "clockOld"
InitRaf == Init /\ variant = "raf"
InitSeek == Init /\ variant = "seek"
InitCount == Init /\ variant = "count"
SpecClock == InitClock /\ [][NextClock]_vars
SpecClockOld == InitClockOld /\ [][NextClock]_vars
SpecRaf == InitRaf /\ [][NextRaf]_vars
SpecSeek == InitSeek /\ [][NextSeek]_vars
\* Any version, a single run: runClient is called once.
SpecOneRun == Init /\ [][NextOneRun]_vars

\* One run whose model may fail to load.
NextDegraded ==
  \/ NextOneRun
  \/ \E r \in Runs : LoadSessionFails(r)
  \/ \E c \in BagToSet(calls), res \in DetLists : RunOnnxNoSession(c, res)
SpecDegraded == Init /\ [][NextDegraded]_vars

\* The seek-driven version with no user at the playback surface: one run,
\* which the page may clean up.
NextSeekAuto ==
  \/ FirstRunClientCall
  \/ \E r \in Runs : LoadSessionDone(r)
  \/ SeekedEvent
  \/ SeekAborted
  \/ LoadedMetadataEvent
  \/ LoadedDataEvent
  \/ \E c \in BagToSet(calls), res \in DetLists : RunOnnxResolves(c, res)
  \/ \E c \in BagToSet(calls) : RunOnnxRejects(c)
  \/ Cleanup
SpecSeekAuto == InitSeek /\ [][NextSeekAuto]_vars

\* The frame-counting version with no user at the playback surface: one run.
NextCount ==
  \/ FirstRunClientCall
  \/ \E r \in Runs : LoadSessionDone(r)
  \/ \E r \in Runs : PlayResolved(r)
  \/ \E r \in Runs : TimeoutFires(r)
  \/ SeekedEvent
  \/ LoadedMetadataEvent
  \/ LoadedDataEvent
  \/ Advance
  \/ \E c \in BagToSet(calls), res \in DetLists : RunOnnxResolves(c, res)
  \/ \E c \in BagToSet(calls) : RunOnnxRejects(c)
  \/ \E c \in BagToSet(calls) : ImportResolves(c)
SpecCount == InitCount /\ [][NextCount]_vars

TypeOK ==
  /\ variant \in Variants
  /\ running \in BOOLEAN /\ isProcessingRef \in BOOLEAN /\ isRunningRef \in BOOLEAN
  /\ progress \in 0..100 \cup {NaN}
  /\ nRuns \in 0..MaxRuns
  /\ pendingSeeked \in 0..MaxPendingSeeked
  /\ \A r \in Runs : timeouts[r] \in 0..MaxTimeouts
  /\ video.currentTime \in 0..video.duration
  /\ \A r \in Runs : frameIdx[r] \in 0..MaxFrameIdx
  /\ Len(sampled) <= MaxSampled

----------------------------------------------------------------------------
\* Properties.

LiveVariants == {"clock", "clockOld", "raf"}

\* The calls of bag b that satisfy a test, counted.
OnnxInFlight(b) ==
  BagCardinality([c \in {d \in BagToSet(b) : d.stage = "onnx"} |-> b[c]])
InFlightOf(b, r) ==
  BagCardinality([c \in {d \in BagToSet(b) : d.run = r} |-> b[c]])

\* Nothing is pending that would make the scheduler take a step by itself.
Quiescent ==
  /\ intervals = {} /\ rafs = {} /\ calls = EmptyBag /\ suspended = {}
  /\ pendingSeeked = 0 /\ \A r \in Runs : timeouts[r] = 0

ClockTick ==
  \/ \E t \in intervals : IntervalTick(t)
  \/ \E r \in Runs : TimeoutFires(r)
Settles ==
  \/ \E c \in BagToSet(calls), res \in DetLists : RunOnnxResolves(c, res)
  \/ \E c \in BagToSet(calls) : RunOnnxRejects(c)
  \/ \E c \in BagToSet(calls) : ImportResolves(c)
Rejects == \E c \in BagToSet(calls) : RunOnnxRejects(c)
Resolves == \E c \in BagToSet(calls), res \in DetLists : RunOnnxResolves(c, res)

\* C1: within a single run of a clock-driven or display-loop-driven
\* scheduler (runClient called once, cleanup not called since), at most one
\* tick is suspended in runOnnx (or in what follows it) at any time.
C1_AtMostOneInFlight ==
  (variant \in LiveVariants /\ ~stopped) => BagCardinality(calls) <= 1

\* C1 witness: a tick found the busy flag set while the run's one call was
\* in flight.
C1_Witness ==
  /\ variant \in LiveVariants /\ ~stopped /\ nRuns = 1
  /\ last = "busy" /\ OnnxInFlight(calls) = 1

\* C2 (as claimed): the run started last never has two calls of its own in
\* flight, whatever the calls of earlier runs do.
C2_OwnCallsAtMostOne ==
  nRuns >= 1 => InFlightOf(calls, nRuns) <= 1

\* C3: a clock-driven tick (interval or delayed seek callback) that finds the
\* busy flag set leaves calls, busy flag, cache, overlay and progress as they
\* are, and no settling of a call dispatches another one (nothing is queued).
C3_BusyTickDropped ==
  [][ /\ (variant \in ClockVariants /\ isProcessingRef /\ ClockTick)
           => UNCHANGED <<calls, isProcessingRef, detectionsCache, overlay,
                          progress, running>>
      /\ (variant \in ClockVariants /\ Settles)
           => OnnxInFlight(calls') <= OnnxInFlight(calls) ]_vars

\* C3 witness: a clock tick has just been dropped on the busy flag.
C3_Witness ==
  variant \in ClockVariants /\ last = "busy" /\ isProcessingRef
    /\ OnnxInFlight(calls) = 1

\* The listeners of one type attached to the video.
ListenersFor(type) == {l \in listeners : l.type = type}

\* C4 (as claimed): once runClient calls have gone through and cleanup was
\* not called since, one listener of each type is attached and at most one
\* interval timer is active.
C4_OneTimerOneListenerEach ==
  (variant \in ClockVariants /\ nRuns >= 1 /\ suspended = {} /\ ~stopped)
    => /\ Cardinality(intervals) <= 1
       /\ \A ty \in {"seeked", "play", "pause"} :
             Cardinality(ListenersFor(ty)) = 1

\* C5 (as claimed): when the seek-driven run has exited (end of video, error
\* or cleanup) no seeked listener it registered is still attached.
C5_NoListenerAfterExit ==
  (variant = "seek" /\ nRuns >= 1 /\ suspended = {} /\ ~isRunningRef)
    => ListenersFor("seeked") = {}

\* C6 (as claimed): when playback of a video of positive length has ended and
\* nothing is pending that would make the scheduler act again, the run has
\* left the running state.
C6_EndedRunStops ==
  (nRuns >= 1 /\ ~stopped /\ video.duration > 0 /\ Ended(video) /\ Quiescent)
    => ~running

\* C7 (as claimed): after cleanup (and until a run is started) the overlay is
\* clear, the cache empty and progress 0, whatever call settles.
C7_NothingAfterCleanup ==
  stopped => /\ overlay = NoResult
             /\ detectionsCache = EmptyCache
             /\ lastDetectionsRef = NoResult
             /\ progress = 0

\* C8 (as claimed): after cleanup and until runClient is called, no step
\* dispatches an inference call.
C8_NoDispatchAfterCleanup ==
  [][(stopped /\ stopped') => OnnxInFlight(calls') <= OnnxInFlight(calls)]_vars

\* C9: in the seek-driven version a rejected inference ends the run (running
\* false, busy flag released), and while the run is ended no event of the
\* playback surface and no settling call dispatches inference, issues a seek
\* or makes it running again.
C9_SeekFailureFatal ==
  [][ /\ (variant = "seek" /\ Rejects)
           => ~running' /\ ~isRunningRef' /\ ~isProcessingRef'
      /\ (variant = "seek" /\ ~isRunningRef
            /\ (SeekedEvent \/ LoadedDataEvent \/ Settles))
           => /\ ~isRunningRef' /\ running' = running
              /\ OnnxInFlight(calls') <= OnnxInFlight(calls)
              /\ video.currentTime' = video.currentTime
              /\ pendingSeeked' <= pendingSeeked ]_vars

\* C9 witness: a call has just been rejected, the run is over and a seeked
\* event is still to come.
C9_Witness ==
  variant = "seek" /\ last = "rejected" /\ ~running /\ pendingSeeked > 0

----------------------------------------------------------------------------
\* Sampling of the seek-driven version.

\* A step that dispatches an inference call.
Dispatches == OnnxInFlight(calls') > OnnxInFlight(calls)
\* The sequence 0, 1, ..., n - 1 of sampling steps.
FirstTimes(n) == [i \in 1..n |-> i - 1]

\* C11 (as claimed): the sampled times are 0, 1, 2, ... in steps of 1/fps, each
\* once, and a seeked event makes the run process a frame only when it
\* acknowledges the seek to the current position (no later seek is pending).
C11_SamplingOrder ==
  [][ /\ sampled' = FirstTimes(Len(sampled'))
      /\ (SeekedEvent /\ Dispatches) => pendingSeeked' = 0 ]_vars

\* C12 (as claimed): a seek-driven run whose media is loaded and that has
\* nothing left to wait for (no call in flight, no seek to be acknowledged)
\* has left the running state, whatever the duration.
C12_SeekRunTerminates ==
  (variant = "seek" /\ nRuns >= 1 /\ ~stopped /\ video.ready /\ Quiescent)
    => ~running

\* C13: the times inference is dispatched at in a seek-driven run are
\* 0, 1, 2, ... below the duration, whatever the order of events and however
\* long the calls take; a run that goes to its end has sampled every one.
C13_SamplingDeterministic ==
  [][ /\ sampled' = FirstTimes(Len(sampled'))
      /\ Len(sampled') > 0 => Len(sampled') <= video'.duration
      /\ (Resolves /\ running /\ ~running') => Len(sampled') = video'.duration
    ]_vars
\* C13 witness: a run went to its end having sampled every step, the last of
\* them on a seeked event that came before the seek to that step was
\* acknowledged.
C13_Witness ==
  /\ variant = "seek" /\ ~running /\ ~stopped /\ last = "other"
  /\ calls = EmptyBag /\ pendingSeeked > 0
  /\ video.duration = MaxDur /\ sampled = FirstTimes(MaxDur)

\* C14 (as claimed): a run of the frame-counting version in which every call
\* succeeds, that has processed a frame and that ends at the end of a video
\* of positive length has processed as many frames as the video has sampling
\* steps (100 for 10 seconds at 10 fps).
C14_ExactTickCount ==
  [][ (variant = "count" /\ running /\ ~running' /\ Ended(video)
         /\ video.duration > 0 /\ frameIdx[nRuns] >= 1)
        => frameIdx[nRuns] = video.duration ]_vars

\* C15 (as claimed): when a seek-driven run ends by reaching the end of the
\* video (its last call resolves and no further step is left), the progress
\* it reports last is 100.
C15_FinalProgressIs100 ==
  [][ (variant = "seek" /\ Resolves /\ running /\ ~running')
        => progress' = 100 ]_vars

\* C16 (as claimed): within a run of the time-based variant progress never
\* decreases: a step that is neither a runClient call nor a cleanup, taken
\* while the run is running, reports no value lower than the one before.
C16_ProgressMonotone ==
  [][ (variant = "raf" /\ running /\ ~stopped /\ ~stopped' /\ nRuns' = nRuns)
        => progress' >= progress ]_vars

\* C17 (as claimed): every progress value a variant reports is a number in
\* the closed range 0..100.
C17_ProgressInRange == progress \in 0..100

\* C18 (as claimed): once a started run has left the running state (end of
\* video, error or cleanup) and no start-up of runClient is still suspended,
\* a step other than a runClient call neither makes the scheduler running
\* again nor dispatches an inference call.
C18_RunStateMonotone ==
  [][ (nRuns >= 1 /\ ~running /\ suspended = {} /\ nRuns' = nRuns)
        => /\ ~running'
           /\ OnnxInFlight(calls') <= OnnxInFlight(calls) ]_vars

\* C19 (as claimed): when a call dispatched in an earlier run resolves after
\* a later run has gone through its start-up, the overlay, the detection set and cache, the
\* progress and the playback position the later run uses are left as they
\* were.
C19_NoCrossRunSharing ==
  [][ \A c \in BagToSet(calls), res \in DetLists :
        (c.run < nRuns /\ suspended = {} /\ RunOnnxResolves(c, res))
          => /\ overlay' = overlay
             /\ lastDetectionsRef' = lastDetectionsRef
             /\ detectionsCache' = detectionsCache
             /\ progress' = progress
             /\ video' = video ]_vars

\* C20 (as claimed): cleanup, called in any state (no run started, a run in
\* progress, or right after a cleanup), leaves running false, progress 0, the
\* busy flag released, no timer, no listener, an empty detection set and
\* cache and a cleared overlay, and a second cleanup changes nothing.
C20_CleanupIdempotent ==
  [][ Cleanup =>
        /\ [CleanupOf(Step(State', "cleanup")) EXCEPT !.stopped = TRUE] = State'
        /\ ~running' /\ progress' = 0 /\ ~isProcessingRef'
        /\ intervals' = {} /\ rafs' = {}
        /\ \A r \in Runs : timeouts'[r] = 0
        /\ listeners' = {}
        /\ lastDetectionsRef' = NoResult /\ detectionsCache' = EmptyCache
        /\ overlay' = NoResult ]_vars

----------------------------------------------------------------------------
\* utils/nms.ts (part_005) and the iou / nms of YoloVideoAnnotator.tsx.
\*
\* A box is <<x1, y1, x2, y2>>.  Coordinates are counted in steps of 1e-3, so
\* that an area is counted in steps of 1e-6 and the 1e-6 of part_005:12 is
\* one unit of area.  The arithmetic is exact: a quotient is kept as the pair
\* [n, d] of its numerator and denominator, and 0 / 0 is NaN.
MaxCoord == 2
Eps == 1

Coords == 0..MaxCoord
BBoxes == Coords \X Coords \X Coords \X Coords
Area(a) == (a[3] - a[1]) * (a[4] - a[2])
Quot(n, d) == [n |-> n, d |-> d]
IsNaN(q) == q.d = 0 /\ q.n = 0
\* Comparisons of a quotient that is not NaN.
QLeq(q, t) == IF q.d * t.d > 0 THEN q.n * t.d <= t.n * q.d
                              ELSE q.n * t.d >= t.n * q.d
QGt(q, t) == ~QLeq(q, t)

\* Math.max(0, x2 - x1) * Math.max(0, y2 - y1)
Inter(a, b) ==
  LET x1 == Max(a[1], b[1])
      y1 == Max(a[2], b[2])
      x2 == Min(a[3], b[3])
      y2 == Min(a[4], b[4])
  IN  Max(0, x2 - x1) * Max(0, y2 - y1)

\* A coordinate that is NaN: the value of an element past the end of the
\* tensor data (undefined) and of all arithmetic on it.
Undefined == -1000
HasNaN(a) == \E k \in 1..4 : a[k] = Undefined

\* iou of utils/nms.ts; Math.max, Math.min and the arithmetic hand a NaN
\* coordinate on to inter and union.
iou(a, b) ==
  LET inter == Inter(a, b)
      union == Area(a) + Area(b) - inter + Eps
  IN  IF HasNaN(a) \/ HasNaN(b) THEN Quot(0, 0) ELSE Quot(inter, union)

\* iou of YoloVideoAnnotator.tsx
iouYolo(a, b) ==
  LET inter == Inter(a, b)
      union == Area(a) + Area(b) - inter
  IN  IF union <= 0 THEN Quot(0, 1) ELSE Quot(inter, union)

Impls == {"utils", "annotator"}
IouOf(impl, a, b) == IF impl = "utils" THEN iou(a, b) ELSE iouYolo(a, b)

\* iou(a, b) is called.
IouArgs == [fn : {"iou"}, impl : Impls, a : BBoxes, b : BBoxes]
CallIou ==
  /\ args.fn = "iou" /\ result = NoCall
  /\ result' = [fn |-> "iou", v |-> IouOf(args.impl, args.a, args.b)]
  /\ UNCHANGED <<hookVars, args, pageVars>>

\* The hook is mounted and left alone while a function is looked at.
HookIdle == Mounted /\ variant = "clock" /\ video.duration = 0 /\ ~video.meta
Idle == HookIdle /\ PageIdle

InitIou == Idle /\ args \in IouArgs /\ result = NoCall
SpecIou == InitIou /\ [][CallIou]_vars

\* How JavaScript compares a quotient with a threshold: a comparison with
\* NaN is false.
JsLeq(q, t) == ~IsNaN(q) /\ QLeq(q, t)
JsGt(q, t) == ~IsNaN(q) /\ QGt(q, t)

\* The candidates of a non-max suppression are a sequence of [box, score,
\* cls]; what is kept is the sequence of their indices.
MaxBoxes == 3
NmsBoxes == {<<0, 0, 2, 1>>, <<1, 0, 2, 1>>, <<0, 0, 1, 1>>,
             <<0, 0, 0, 0>>, <<0, 1, 1, 0>>}
NmsScores == {1, 2}
NmsClasses == {0, 1}
Threshs == {Quot(0, 1), Quot(1, 3), Quot(1, 2)}
Cands == [box : NmsBoxes, score : NmsScores, cls : NmsClasses]
CandSeqs == UNION {[1..n -> Cands] : n \in 0..MaxBoxes}

SortIdxTiesReversed(d) ==
  [k \in 1..Len(d) |->
     CHOOSE i \in 1..Len(d) :
       Cardinality({j \in 1..Len(d) :
                      \/ d[j].score > d[i].score
                      \/ (d[j].score = d[i].score /\ j > i)}) = k - 1]

\* scores.map((s,i)=>i).sort((a,b)=>scores[b]-scores[a]): the sort is stable,
\* so candidates of equal score stay in input order.
Before(d, i, j) ==
  d[i].score > d[j].score \/ (d[i].score = d[j].score /\ i < j)
SortIdx(d) ==
  [k \in 1..Len(d) |->
     CHOOSE i \in 1..Len(d) :
       Cardinality({j \in 1..Len(d) : Before(d, j, i)}) = k - 1]

RestClassTestInverted(d, t, i, idxs) ==
  SelectSeq(idxs, LAMBDA j : \/ d[i].cls = d[j].cls
                             \/ JsLeq(iou(d[i].box, d[j].box), t))

\* One turn of the while loop of nms: the candidates that stay after i.
Rest(d, t, i, idxs) ==
  SelectSeq(idxs, LAMBDA j : \/ d[i].cls # d[j].cls
                             \/ JsLeq(iou(d[i].box, d[j].box), t))

RECURSIVE NmsLoop(_, _, _, _)
NmsLoop(d, t, idxs, kept) ==
  IF idxs = <<>> THEN kept
  ELSE NmsLoop(d, t, Rest(d, t, Head(idxs), Tail(idxs)),
               Append(kept, Head(idxs)))

\* nms of utils/nms.ts
nms(d, t) == NmsLoop(d, t, SortIdx(d), <<>>)

\* The test of the inner loop of the nms of YoloVideoAnnotator.tsx.
Keep(d, t, i, selected) ==
  \A k \in 1..Len(selected) :
     ~JsGt(iouYolo(d[i].box, d[selected[k]].box), t)

RECURSIVE YoloLoop(_, _, _, _)
YoloLoop(d, t, idxs, selected) ==
  IF idxs = <<>> THEN selected
  ELSE YoloLoop(d, t, Tail(idxs),
                IF Keep(d, t, Head(idxs), selected)
                THEN Append(selected, Head(idxs)) ELSE selected)

\* nms of YoloVideoAnnotator.tsx
nmsYolo(d, t) == YoloLoop(d, t, SortIdx(d), <<>>)

NmsOf(impl, d, t) == IF impl = "utils" THEN nms(d, t) ELSE nmsYolo(d, t)

\* nms is called on the candidates args.dets; `pass` is 2 when they are what
\* a first call kept, out of `given` candidates.
NmsArgs == [fn : {"nms"}, impl : Impls, dets : CandSeqs, thresh : Threshs,
            pass : {1}, given : {0}]
CallNms ==
  /\ args.fn = "nms" /\ result = NoCall
  /\ result' = [fn |-> "nms", kept |-> NmsOf(args.impl, args.dets, args.thresh)]
  /\ UNCHANGED <<hookVars, args, pageVars>>

\* nms is called again, on the boxes, scores and classes the call kept.
CallNmsOnKept ==
  /\ args.fn = "nms" /\ args.pass = 1 /\ result # NoCall
  /\ args' = [args EXCEPT
                !.dets = [k \in 1..Len(result.kept) |-> args.dets[result.kept[k]]],
                !.pass = 2, !.given = Len(args.dets)]
  /\ result' = NoCall
  /\ UNCHANGED <<hookVars, pageVars>>

InitNms == Idle /\ args \in NmsArgs /\ result = NoCall
NextNms == CallNms \/ CallNmsOnKept
SpecNms == InitNms /\ [][NextNms]_vars

----------------------------------------------------------------------------
\* services/inference.ts: runOnnx after session.run, in the version whose
\* model has the suppression built in (part_008, "baked") and in the version
\* that decodes anchors and undoes the letterbox (src/services/inference.ts,
\* "letterbox").
\*
\* A tensor is [dims, data], data being the flat array.  A score, an
\* objectness or a class probability of 1 is the number 1, and so is the
\* confidence threshold 1.  The boxes of the letterbox version are counted
\* in half steps, so that x - w / 2 is exact.
MaxRows == 2
Infinity == 1000

\* arr[k], k counted from 0
ReadAt(arr, k) == IF k >= 0 /\ k < Len(arr) THEN arr[k + 1] ELSE Undefined
\* isFinite(v)
IsFinite(v) == v # Undefined /\ v # Infinity
\* a < b, a <= b, a > b: false when one of them is NaN
Lt(a, b) == a # Undefined /\ b # Undefined /\ a < b
Leq(a, b) == a # Undefined /\ b # Undefined /\ a <= b
Gt(a, b) == a # Undefined /\ b # Undefined /\ a > b
\* a + b, a - b, a * b and Math.max(0, a) on numbers and NaN
Plus(a, b) == IF a = Undefined \/ b = Undefined THEN Undefined ELSE a + b
Minus(a, b) == IF a = Undefined \/ b = Undefined THEN Undefined ELSE a - b
Times(a, b) == IF a = Undefined \/ b = Undefined THEN Undefined ELSE a * b
Max0(a) == IF a = Undefined THEN Undefined ELSE Max(0, a)

\* part_008:161-176: the first output whose dims look like [1, numDet, >= 6]
\* or [numDet, >= 6]; 0 when there is none.
Accepted(dims) ==
  \/ Len(dims) = 3 /\ dims[1] = 1 /\ dims[3] >= 6
  \/ Len(dims) = 2 /\ dims[2] >= 6
DetTensor(outputs) ==
  IF \E k \in 1..Len(outputs) : Accepted(outputs[k].dims)
  THEN CHOOSE k \in 1..Len(outputs) :
         /\ Accepted(outputs[k].dims)
         /\ \A j \in 1..(k - 1) : ~Accepted(outputs[j].dims)
  ELSE 0

\* part_008:205-229: one turn of the row loop; <<>> when the row is skipped.
BakedRow(arr, off, conf) ==
  LET x1 == ReadAt(arr, off)
      y1 == ReadAt(arr, off + 1)
      x2 == ReadAt(arr, off + 2)
      y2 == ReadAt(arr, off + 3)
      score == ReadAt(arr, off + 4)
      clsRaw == ReadAt(arr, off + 5)
  IN  IF Lt(score, conf) THEN <<>>
      ELSE IF ~IsFinite(x1) \/ ~IsFinite(y1) \/ ~IsFinite(x2) \/ ~IsFinite(y2)
      THEN <<>>
      ELSE IF x2 <= x1 \/ y2 <= y1 THEN <<>>
      ELSE << [cls |-> Max0(clsRaw), conf |-> score,
               xyxy |-> <<x1, y1, x2, y2>>] >>

RECURSIVE BakedRows(_, _, _, _, _)
BakedRows(arr, numDet, feat, conf, i) ==
  IF i >= numDet THEN <<>>
  ELSE BakedRow(arr, i * feat, conf) \o BakedRows(arr, numDet, feat, conf, i + 1)

\* runOnnx of part_008 from the outputs of session.run on
RunOnnxBaked(outputs, conf) ==
  LET k == DetTensor(outputs)
  IN  IF k = 0 THEN <<>>
      ELSE LET dims == outputs[k].dims
               numDet == IF Len(dims) = 3 THEN dims[2] ELSE dims[1]
               feat == IF Len(dims) = 3 THEN dims[3] ELSE dims[2]
           IN  BakedRows(outputs[k].data, numDet, feat, conf, 0)

\* src/services/inference.ts:99-104: the best class of the row at off, from
\* feature c on.
RECURSIVE BestClass(_, _, _, _, _)
BestClass(arr, off, C, c, best) ==
  IF ~Lt(c, C) THEN best
  ELSE LET p == ReadAt(arr, off + c)
       IN  BestClass(arr, off, C, c + 1,
                     IF Gt(p, best.p) THEN [c |-> c - 5, p |-> p] ELSE best)

\* src/services/inference.ts:93-113: one turn of the row loop.
AnchorRow(arr, off, C, conf) ==
  LET x == ReadAt(arr, off)
      y == ReadAt(arr, off + 1)
      w == ReadAt(arr, off + 2)
      h == ReadAt(arr, off + 3)
      obj == ReadAt(arr, off + 4)
      best == BestClass(arr, off, C, 5, [c |-> -1, p |-> 0])
      score == Times(obj, best.p)
  IN  IF Leq(obj, 0) THEN <<>>
      ELSE IF Lt(score, conf) THEN <<>>
      ELSE << [box |-> << Minus(Times(2, x), w), Minus(Times(2, y), h),
                         Plus(Times(2, x), w), Plus(Times(2, y), h) >>,
               score |-> score, cls |-> best.c] >>

RECURSIVE AnchorRows(_, _, _, _, _)
AnchorRows(arr, N, C, conf, i) ==
  IF ~Lt(i, N) THEN <<>>
  ELSE AnchorRow(arr, i * C, C, conf) \o AnchorRows(arr, N, C, conf, i + 1)

\* scaleBack with ratio 1 and the clamp of src/services/inference.ts:124-129
ScaleBack(box, dx, dy) ==
  << Max0(Minus(box[1], 2 * dx)), Max0(Minus(box[2], 2 * dy)),
     Max0(Minus(box[3], 2 * dx)), Max0(Minus(box[4], 2 * dy)) >>

\* parseOutput of src/services/inference.ts
parseOutput(out, conf, iouThresh, dx, dy) ==
  LET dims == out.dims
      N == IF Len(dims) >= 2 THEN dims[Len(dims) - 1] ELSE Undefined
      C == dims[Len(dims)]
      cands == AnchorRows(out.data, N, C, conf, 0)
      keep == nms(cands, iouThresh)
  IN  [k \in 1..Len(keep) |->
         [cls |-> cands[keep[k]].cls, conf |-> cands[keep[k]].score,
          xyxy |-> ScaleBack(cands[keep[k]].box, dx, dy)]]

\* runOnnx of src/services/inference.ts from the outputs of session.run on:
\* the first output is taken.
RunOnnxLetterbox(outputs, conf, iouThresh, dx, dy) ==
  parseOutput(outputs[1], conf, iouThresh, dx, dy)

\* The rows a tensor is made of, and the tensors: up to MaxRows rows of six
\* features under each shape their data can be given.
Rows6 == { <<0, 0, 1, 1, 1, 0>>, <<1, 1, 2, 2, 1, 1>>, <<0, 0, 2, 1, 0, 0>>,
           <<0, 0, 1, 1, Undefined, 0>>, <<0, 0, Infinity, 1, 1, 0>>,
           <<Undefined, 0, 1, 1, 1, 0>>, <<1, 0, 0, 1, 1, 0>>,
           <<0, 0, 0, 1, 1, 0>>, <<0, 0, 1, 1, 2, 0>>, <<0, 1, 2, 2, 1, 1>> }
RECURSIVE Flatten(_)
Flatten(rows) == IF rows = <<>> THEN <<>> ELSE Head(rows) \o Flatten(Tail(rows))
RowSeqs == UNION {[1..n -> Rows6] : n \in 0..MaxRows}
ShapesOf(n) == { <<1, n, 6>>, <<n, 6>>, <<6 * n>>, <<1, 2 * n, 3>>, <<2, n, 3>> }
Tensors == UNION { {[dims |-> d, data |-> Flatten(rows)] :
                      d \in ShapesOf(Len(rows))} : rows \in RowSeqs }
\* An output that is no detection tensor.
Aux == [dims |-> <<1, 3>>, data |-> <<0, 0, 0>>]
Outputs == {<<t>> : t \in Tensors} \cup {<<Aux, t>> : t \in Tensors}
Confs == {0, 1}
Engines == {"baked", "letterbox"}

\* runOnnx, from the resolution of session.run on.  The letterbox version
\* is not given non-finite data: its arithmetic is modelled on numbers and
\* NaN only.
RunOnnxArgs ==
  {a \in [fn : {"runOnnx"}, engine : Engines, outputs : Outputs,
           conf : Confs, iou : {Quot(1, 2)}, dx : {0, 1}, dy : {0}] :
     /\ a.engine = "letterbox"
          => \A k \in 1..Len(a.outputs) :
                \A j \in 1..Len(a.outputs[k].data) :
                   a.outputs[k].data[j] # Infinity
     /\ a.engine = "baked" => a.dx = 0}
CallRunOnnx ==
  /\ args.fn = "runOnnx" /\ result = NoCall
  /\ result' =
       [fn |-> "runOnnx",
        dets |-> IF args.engine = "baked"
                 THEN RunOnnxBaked(args.outputs, args.conf)
                 ELSE RunOnnxLetterbox(args.outputs, args.conf, args.iou,
                                       args.dx, args.dy)]
  /\ UNCHANGED <<hookVars, args, pageVars>>

InitRunOnnx == Idle /\ args \in RunOnnxArgs /\ result = NoCall
SpecRunOnnx == InitRunOnnx /\ [][CallRunOnnx]_vars

\* The value of a quotient is 0, is 1, lies in [0, 1].
IsZero(q) == q.d # 0 /\ q.n = 0
IsOne(q) == q.d # 0 /\ q.n = q.d
InUnit(q) == q.d # 0 /\ QLeq(Quot(0, 1), q) /\ QLeq(q, Quot(1, 1))

\* C25 (as claimed): for a box a with x2 > x1 and y2 > y1, iou(a, a) is 1.
C25_IouSelfIsOne ==
  (result.fn = "iou" /\ args.a = args.b
     /\ args.a[3] > args.a[1] /\ args.a[4] > args.a[2])
    => IsOne(result.v)

\* C26 (as claimed): for all boxes a and b, zero-area and inverted ones
\* included, iou(a, b) is a number in [0, 1], and it is 0 when a or b has
\* zero area.
C26_IouInUnit ==
  result.fn = "iou"
    => /\ InUnit(result.v)
       /\ (Area(args.a) = 0 \/ Area(args.b) = 0) => IsZero(result.v)

\* What a call of nms was given and what it kept.
NmsDone == result.fn = "nms"
KeptSet == {result.kept[k] : k \in 1..Len(result.kept)}
KeptIou(i, j) == IouOf(args.impl, args.dets[i].box, args.dets[j].box)

C22_BestOfEachClassKept ==
  (NmsDone /\ args.pass = 1) =>
    \A i \in 1..Len(args.dets) :
       (\A j \in 1..Len(args.dets) :
           (j # i /\ args.dets[j].cls = args.dets[i].cls)
             => Before(args.dets, i, j))
         => i \in KeptSet

\* C23 (as claimed): nms returns the greedy result: the kept indices are in
\* descending order of score (equal scores in input order), and a candidate
\* is kept exactly when its IoU with every kept box of its class that comes
\* before it is strictly below the threshold.
C23_GreedyReference ==
  (NmsDone /\ args.pass = 1) =>
    /\ \A a \in 1..Len(result.kept), b \in 1..Len(result.kept) :
          a < b => Before(args.dets, result.kept[a], result.kept[b])
    /\ \A i \in 1..Len(args.dets) :
          i \in KeptSet <=>
            \A k \in KeptSet :
               (Before(args.dets, k, i) /\ args.dets[k].cls = args.dets[i].cls)
                 => (~IsNaN(KeptIou(k, i)) /\ ~QLeq(args.thresh, KeptIou(k, i)))

\* C24: nms applied, with the same threshold, to what a call of nms kept
\* keeps all of it, in the same order.
C24_NmsIdempotent ==
  (NmsDone /\ args.pass = 2) =>
    result.kept = [k \in 1..Len(args.dets) |-> k]

\* C24 witness: the first call suppressed one of three candidates, and the
\* second call was given the two that were kept, which have equal scores.
C24_Witness ==
  /\ NmsDone /\ args.pass = 2 /\ args.impl = "utils"
  /\ args.given = 3 /\ Len(args.dets) = 2
  /\ args.dets[1].score = args.dets[2].score
  /\ args.dets[1].cls = args.dets[2].cls

----------------------------------------------------------------------------
\* The call of runOnnx looked at has returned.
RunOnnxDone == args.fn = "runOnnx" /\ result.fn = "runOnnx"
\* The detection tensor of the call and its rows, for the baked version.
TheTensor == args.outputs[DetTensor(args.outputs)]
TheRows ==
  LET n == Len(TheTensor.data) \div 6
  IN  [i \in 1..n |-> SubSeq(TheTensor.data, 6 * (i - 1) + 1, 6 * i)]
WellFormedRow(row) ==
  /\ \A k \in 1..4 : row[k] # Undefined /\ row[k] # Infinity
  /\ row[3] > row[1] /\ row[4] > row[2]
ScoreAtLeast(row, conf) == row[5] # Undefined /\ row[5] >= conf

\* C27: the baked version returns exactly the rows of the detection tensor
\* that have score >= the confidence threshold, four finite coordinates,
\* x2 > x1 and y2 > y1, in row order.
C27_BakedRowsExact ==
  (RunOnnxDone /\ args.engine = "baked" /\ DetTensor(args.outputs) # 0)
    => LET want == SelectSeq(TheRows, LAMBDA row :
                     ScoreAtLeast(row, args.conf) /\ WellFormedRow(row))
       IN  /\ Len(result.dets) = Len(want)
           /\ \A k \in 1..Len(want) :
                 /\ result.dets[k].xyxy = SubSeq(want[k], 1, 4)
                 /\ result.dets[k].conf = want[k][5]

\* C28: every Detection returned by runOnnx has a non-negative integer class
\* id, a confidence in [0, 1] and a box with x2 > x1 and y2 > y1.
WellFormedDetection(d) ==
  /\ d.cls \in Nat
  /\ Leq(0, d.conf) /\ Leq(d.conf, 1)
  /\ Gt(d.xyxy[3], d.xyxy[1]) /\ Gt(d.xyxy[4], d.xyxy[2])
C28_DetectionsWellFormed ==
  RunOnnxDone => \A k \in 1..Len(result.dets) : WellFormedDetection(result.dets[k])

\* C29: when no output tensor has an accepted shape, runOnnx returns an
\* empty detection list.
NoAcceptedShape == \A k \in 1..Len(args.outputs) : ~Accepted(args.outputs[k].dims)
C29_UnacceptedShapeGivesNone ==
  (RunOnnxDone /\ NoAcceptedShape) => result.dets = <<>>

----------------------------------------------------------------------------
\* C30: when loading the model fails, runClient goes on to start the run,
\* and from then on no tick invokes the engine and none throws.
LoadFailed ==
  \E r \in Runs : /\ [run |-> r, at |-> "load"] \in suspended
                   /\ [run |-> r, at |-> "load"] \notin suspended'
                   /\ ~session'
C30_DegradedRunGoesOn ==
  [][ /\ LoadFailed => running'
      /\ (nRuns' >= 1 /\ suspended' = {} /\ ~session')
           => /\ \A c \in BagToSet(calls') : c.stage # "onnx"
              /\ last' # "rejected" ]_vars
\* A run without a session has had a tick's runOnnx return.
C30_Witness ==
  /\ nRuns = 1 /\ ~session /\ suspended = {}
  /\ \/ progress > 0
     \/ lastDetectionsRef # NoResult
     \/ detectionsCache # EmptyCache

----------------------------------------------------------------------------
\* C35: the busy flag is true if and only if a tick of the hook is suspended
\* in an inference call (or in what follows it within the same tick).
C35_BusyIffInFlight == isProcessingRef <=> calls # EmptyBag

\* C36: in the seek-driven version with nobody else at the playback surface,
\* the seeked event of the seek a tick issued (the last one pending, once a
\* tick has moved the position) is not dropped by the busy test.
C36_OwnSeekedNotDropped ==
  [][ (variant = "seek" /\ isRunningRef /\ video.currentTime > 0
         /\ pendingSeeked = 1 /\ pendingSeeked' = 0)
        => last' # "busy" ]_vars

\* C37: in the display-loop version at most one animation-frame callback is
\* pending, and rafIdRef is its id.
C37_OneFrameChain ==
  variant = "raf" =>
    /\ Cardinality(rafs) <= 1
    /\ \A f \in rafs : f.id = rafIdRef

\* C34: in the display-loop version a tick that yields no detections leaves
\* the stored set as it is and redraws it, and a stored set that is not
\* empty becomes empty only by cleanup or a new runClient; in the
\* seek-driven version after a tick that succeeded the stored set and the
\* overlay are that tick's detections.
TickResolved(res) ==
  \E c \in BagToSet(calls) : RunOnnxResolves(c, res) \/ RunOnnxNoSession(c, res)
C39_OneSessionCreated ==
  [][ (\E r \in Runs : LoadSessionDone(r)) => ~session ]_vars

\* C38: whenever running is true, something of the hook can still act: a
\* timer, a frame or a timeout is pending, a play or seeked listener is
\* attached, or a tick or a start-up of runClient is suspended at an await.
TickSource ==
  \/ intervals # {} \/ rafs # {} \/ \E r \in Runs : timeouts[r] > 0
  \/ \E l \in listeners : l.type \in {"play", "seeked"}
  \/ calls # EmptyBag \/ suspended # {}
C38_RunningHasTickSource == running => TickSource

----------------------------------------------------------------------------
\* App.onServer and services/api.ts annotateOnServer: the remote path.
\* server.at is where onServer stands: at the fetch, at the reading of the
\* body (res.blob() or res.json()), or done.
MaxClicks == 3
NoResp == [ok |-> TRUE, ct |-> "none", body |-> "none"]
\* What the service may answer: a status, a content type and, for a body
\* that is not a video, what its JSON holds (or that it does not parse).
Responses ==
  [ok : BOOLEAN, ct : {"video"}, body : {"bytes"}]
    \cup [ok : BOOLEAN, ct : {"json"},
          body : {"video_url", "json_url", "both", "detail", "unparsable"}]
ServerStart ==
  [at : {"idle"}, file : BOOLEAN, apiBase : BOOLEAN, resp : {NoResp},
   alert : {FALSE}, annotatedVideoURL : {"null"}, opened : {FALSE},
   cause : {"none"}, clicks : {0}]

\* setRunning(b) of the hook, called by the page.
SetRunning(b) ==
  Assign([State EXCEPT !.running = b]) /\ UNCHANGED <<args, result, geom, annot>>

\* onPick(f)
OnPick ==
  /\ server.at = "idle" /\ ~server.file
  /\ server' = [server EXCEPT !.file = TRUE]
  /\ UNCHANGED <<hookVars, args, result, geom, annot>>

\* The catch and the finally of onServer.
ServerFailed(sv, cause) ==
  [sv EXCEPT !.at = "done", !.alert = TRUE, !.cause = cause]
\* onServer after annotateOnServer resolved: a Blob or the parsed JSON.
ServerSucceeded(sv) ==
  [sv EXCEPT !.at = "done",
             !.annotatedVideoURL =
                IF sv.resp.ct = "video" THEN "blob"
                ELSE IF sv.resp.body \in {"video_url", "both"} THEN "url"
                ELSE @,
             !.opened = sv.resp.ct = "json" /\ sv.resp.body \in {"json_url", "both"}]

\* onServer() is called (the button is disabled while running): up to the
\* fetch, or through catch and finally when API_BASE is not set.
OnServer ==
  /\ server.at \in {"idle", "done"} /\ server.file /\ ~running
  /\ server.clicks < MaxClicks
  /\ LET sv == [server EXCEPT !.clicks = @ + 1, !.annotatedVideoURL = "null",
                              !.alert = FALSE, !.opened = FALSE,
                              !.resp = NoResp, !.cause = "none"]
     IN  IF ~sv.apiBase
         THEN server' = ServerFailed(sv, "apiBase") /\ SetRunning(FALSE)
         ELSE server' = [sv EXCEPT !.at = "fetch"] /\ SetRunning(TRUE)

\* fetch rejects: a network error.
FetchRejects ==
  /\ server.at = "fetch"
  /\ server' = ServerFailed(server, "network") /\ SetRunning(FALSE)

\* fetch resolves with a response, of any status.
FetchResolves(resp) ==
  /\ server.at = "fetch"
  /\ server' = [server EXCEPT !.at = "body", !.resp = resp]
  /\ UNCHANGED <<hookVars, args, result, geom, annot>>

\* res.blob() or res.json() resolves.
BodyResolves ==
  /\ server.at = "body" /\ server.resp.body # "unparsable"
  /\ server' = ServerSucceeded(server) /\ SetRunning(FALSE)

\* res.blob() or res.json() rejects: the body does not parse or its
\* transfer breaks.
BodyRejects ==
  /\ server.at = "body"
  /\ server' = ServerFailed(server, "body") /\ SetRunning(FALSE)

InitServer ==
  /\ HookIdle /\ args = NoCall /\ result = NoCall
  /\ server \in ServerStart /\ geom = Unmounted /\ annot = Unmounted
NextServer ==
  \/ OnPick
  \/ OnServer
  \/ FetchRejects
  \/ \E resp \in Responses : FetchResolves(resp)
  \/ BodyResolves
  \/ BodyRejects
SpecServer == InitServer /\ [][NextServer]_vars

\* C33: when onServer has finished, running is false, and if the request
\* failed (no API base, network error, non-success response, unparsable
\* body) an alert was shown and no annotated video URL is set.
RequestFailed ==
  \/ server.cause \in {"apiBase", "network", "body"}
  \/ server.resp # NoResp /\ ~server.resp.ok
C33_ServerFailureSurfaced ==
  server.at = "done"
    => /\ ~running
       /\ RequestFailed => server.alert /\ server.annotatedVideoURL = "null"

----------------------------------------------------------------------------
\* src/services/inference.ts: letterbox and the way back (scaleBack and the
\* clamp of parseOutput), on exact quotients.
QEq(q, t) == q.n * t.d = t.n * q.d
\* Math.min of two quotients with positive denominators
QMin(q, t) == IF QLeq(q, t) THEN q ELSE t

\* letterbox(src, size): the ratio and the padding it records
letterbox(w, h, size) ==
  LET r  == QMin(Quot(size, w), Quot(size, h))
      nw == Round(w * r.n, r.d)
      nh == Round(h * r.n, r.d)
  IN  [ratio |-> r, dx |-> (size - nw) \div 2, dy |-> (size - nh) \div 2]

\* scaleBack with the padding added instead of taken off
scaleBackPaddingAdded(xyxy, ratio, dx, dy) ==
  << Quot((xyxy[1] + dx) * ratio.d, ratio.n),
     Quot((xyxy[2] + dy) * ratio.d, ratio.n),
     Quot((xyxy[3] + dx) * ratio.d, ratio.n),
     Quot((xyxy[4] + dy) * ratio.d, ratio.n) >>
\* scaleBack(xyxy, ratio, dx, dy)
scaleBack(xyxy, ratio, dx, dy) ==
  << Quot((xyxy[1] - dx) * ratio.d, ratio.n),
     Quot((xyxy[2] - dy) * ratio.d, ratio.n),
     Quot((xyxy[3] - dx) * ratio.d, ratio.n),
     Quot((xyxy[4] - dy) * ratio.d, ratio.n) >>
\* Math.max(0, q) for a quotient with a positive denominator
QMax0(q) == IF q.n < 0 THEN Quot(0, 1) ELSE q
\* parseOutput, lines 119-129: the box of a detection in frame coordinates
MapBack(xyxy, lb) ==
  LET b == scaleBack(xyxy, lb.ratio, lb.dx, lb.dy)
  IN  [k \in 1..4 |-> QMax0(b[k])]

Frames == { <<1280, 720>>, <<1280, 960>>, <<720, 1280>>, <<640, 640>>,
            <<1920, 1080>>, <<320, 240>> }
Sizes == {320, 640}
ModelBoxes == { <<100, 100, 200, 200>>, <<0, 0, 640, 640>>,
                <<0, 140, 640, 500>>, <<50, 60, 70, 80>>,
                <<10, 20, 300, 320>> }
LetterboxArgs ==
  {a \in [fn : {"letterbox"}, frame : Frames, size : Sizes, box : ModelBoxes] :
     \A k \in 1..4 : a.box[k] <= a.size}
CallLetterbox ==
  /\ args.fn = "letterbox" /\ result = NoCall
  /\ result' = [fn |-> "letterbox",
                lb |-> letterbox(args.frame[1], args.frame[2], args.size)]
  /\ UNCHANGED <<hookVars, args, pageVars>>
CallMapBack ==
  /\ args.fn = "letterbox" /\ result.fn = "letterbox"
  /\ result' = [fn |-> "scaleBack", lb |-> result.lb,
                xyxy |-> MapBack(args.box, result.lb)]
  /\ UNCHANGED <<hookVars, args, pageVars>>
InitLetterbox == Idle /\ args \in LetterboxArgs /\ result = NoCall
NextLetterbox == CallLetterbox \/ CallMapBack
SpecLetterbox == InitLetterbox /\ [][NextLetterbox]_vars

\* The 1280x720 frame letterboxed into 640x640 with the box (100,100,200,200)
\* mapped back.
ScenarioMapped ==
  /\ args.fn = "letterbox" /\ result.fn = "scaleBack"
  /\ args.frame = <<1280, 720>> /\ args.size = 640
  /\ args.box = <<100, 100, 200, 200>>
BoxIs(xyxy, b) == \A k \in 1..4 : QEq(xyxy[k], Quot(b[k], 1))

\* C31 (as claimed): for the 1280x720 frame the recorded ratio is 0.5 and the
\* padding (0, 80), and the box maps back to (200, 40, 400, 240).
C31_ScenarioAsClaimed ==
  ScenarioMapped
    => /\ QEq(result.lb.ratio, Quot(1, 2))
       /\ result.lb.dx = 0 /\ result.lb.dy = 80
       /\ BoxIs(result.xyxy, <<200, 40, 400, 240>>)

\* C31 (amended): for the 1280x720 frame the recorded ratio is 0.5 and the
\* padding (0, 140), and the box comes back as (200, 0, 400, 120); in
\* general a returned coordinate c of a model-space value v is 0 when v lies
\* in the padding, and otherwise c * ratio + padding = v.
C31_BackMapping ==
  /\ ScenarioMapped
       => /\ QEq(result.lb.ratio, Quot(1, 2))
          /\ result.lb.dx = 0 /\ result.lb.dy = 140
          /\ BoxIs(result.xyxy, <<200, 0, 400, 120>>)
  /\ (args.fn = "letterbox" /\ result.fn = "scaleBack")
       => \A k \in 1..4 :
            LET pad == IF k \in {1, 3} THEN result.lb.dx ELSE result.lb.dy
                c   == result.xyxy[k]
                r   == result.lb.ratio
            IN  IF args.box[k] < pad THEN c.n = 0
                ELSE c.n * r.n + pad * c.d * r.d = args.box[k] * c.d * r.d
C31_Witness == ScenarioMapped

----------------------------------------------------------------------------
\* Overlay geometry of the clock-driven hook (part_003): geom.rect is the
\* displayed size of the video box, geom.overlay the backing-store size of
\* the overlay canvas, geom.scale the overlay size the last draw scaled the
\* boxes to (from MODEL_SIZE), <<0, 0>> before the first draw.
BoxSizes == { <<320, 180>>, <<640, 360>>, <<960, 540>>, <<640, 480>> }
\* The size of a canvas nobody has sized.
CanvasDefault == <<300, 150>>
MaxDraws == 2
GeomStart ==
  [rect : BoxSizes, overlay : {CanvasDefault}, started : {FALSE},
   scale : {<<0, 0>>}, draws : {0}]
GeomOnly == UNCHANGED <<hookVars, args, result, server, annot>>

\* runClient, lines 34-39: the overlay takes the size of the rendered video.
SizeOverlay ==
  /\ geom' = [geom EXCEPT !.overlay = geom.rect, !.started = TRUE]
  /\ geom' # geom
  /\ GeomOnly

\* The page is resized: the video box takes a new displayed size.
Resize(sz) ==
  /\ sz # geom.rect
  /\ geom' = [geom EXCEPT !.rect = sz]
  /\ GeomOnly

\* captureAndProcess, lines 70-82 and 89-91: a tick of the run scales the
\* boxes to overlay.width and overlay.height and draws them.
DrawTick ==
  /\ geom.started /\ geom.draws < MaxDraws
  /\ geom' = [geom EXCEPT !.scale = geom.overlay, !.draws = @ + 1]
  /\ GeomOnly

InitGeom ==
  /\ HookIdle /\ args = NoCall /\ result = NoCall
  /\ server = Unmounted /\ annot = Unmounted /\ geom \in GeomStart
NextGeom == SizeOverlay \/ (\E sz \in BoxSizes : Resize(sz)) \/ DrawTick
SpecGeom == InitGeom /\ [][NextGeom]_vars

\* C32: at every draw of a run the overlay backing store has the current
\* displayed size of the video box, and the boxes are scaled to that size.
C32_OverlayTracksDisplay ==
  [][ DrawTick => (geom.overlay = geom.rect /\ geom'.scale = geom.rect) ]_vars

----------------------------------------------------------------------------
\* components/YoloVideoAnnotator.tsx.  annot.isRunning is the component's
\* state; a frame record of annot.rafs is one requested callback of a loop,
\* with the value of isRunning its closure holds (seen) and the closure's
\* frameCount; annot.calls holds the loops that await session.run.
MaxHandleRuns == 3
PROCESS_EVERY == 2
AnnotStart ==
  [load |-> "loading", session |-> FALSE, video |-> "none",
   isRunning |-> FALSE, status |-> "Loading model...",
   rafs |-> {}, calls |-> {}, clicks |-> 0]
AnnotOnly == UNCHANGED <<hookVars, args, result, server, geom>>

\* loadModel, lines 58-76: InferenceSession.create resolves.
ModelLoads ==
  /\ annot.load = "loading"
  /\ annot' = [annot EXCEPT !.load = "done", !.session = TRUE,
                             !.status = "Model loaded. Choose a video."]
  /\ AnnotOnly

\* loadModel, lines 72-75: InferenceSession.create rejects.
ModelFails ==
  /\ annot.load = "loading"
  /\ annot' = [annot EXCEPT !.load = "failed", !.status = "Failed to load model"]
  /\ AnnotOnly

\* handleFileChange, lines 84-89: a new source; the element is paused until
\* its metadata is there.
HandleFileChange ==
  /\ annot.video # "loading"
  /\ annot' = [annot EXCEPT !.video = "loading"]
  /\ AnnotOnly

\* onloadedmetadata, lines 89-92: playback starts.
LoadedMetadata ==
  /\ annot.video = "loading"
  /\ annot' = [annot EXCEPT !.video = "playing",
                             !.status = "Video loaded. Click Run to start detection."]
  /\ AnnotOnly

\* The video plays to its end (it has no loop attribute).
VideoEnds ==
  /\ annot.video = "playing"
  /\ annot' = [annot EXCEPT !.video = "ended"]
  /\ AnnotOnly

\* paused || ended of the video element.
Halted(a) == a.video # "playing"

\* handleRun, lines 97-113 and 202: the loop closes over the isRunning of
\* the render handleRun belongs to; without a 2d context the handler
\* returns after setIsRunning(true).
HandleRun(ctx) ==
  /\ annot.clicks < MaxHandleRuns
  /\ annot.session /\ ~annot.isRunning
  /\ annot' = [annot EXCEPT
       !.clicks = @ + 1,
       !.isRunning = TRUE,
       !.status = "Running detection...",
       !.rafs = IF ctx
                THEN @ \cup {[id |-> annot.clicks + 1, seen |-> annot.isRunning,
                              frameCount |-> 0]}
                ELSE @]
  /\ AnnotOnly

\* loop, lines 113-143: one frame callback of the loop f.
LoopFrame(a, f) ==
  LET rest == a.rafs \ {f}
      g == [f EXCEPT !.frameCount = (@ + 1) % PROCESS_EVERY]
  IN IF ~f.seen \/ Halted(a)
     THEN [a EXCEPT !.rafs = rest, !.isRunning = FALSE, !.status = "Stopped."]
     ELSE IF g.frameCount # 0
     THEN [a EXCEPT !.rafs = rest \cup {g}]
     ELSE [a EXCEPT !.rafs = rest, !.calls = @ \cup {g}]

FrameCallback(f) ==
  /\ f \in annot.rafs
  /\ annot' = LoopFrame(annot, f)
  /\ AnnotOnly

\* loop, lines 143-200: session.run resolves, the boxes are drawn
\* and the next frame is requested.
SessionRunResolves(c) ==
  /\ c \in annot.calls
  /\ annot' = [annot EXCEPT !.calls = @ \ {c}, !.rafs = @ \cup {c},
                             !.status = "Running detection... found boxes"]
  /\ AnnotOnly

\* loop, lines 194-199: session.run rejects.
SessionRunRejects(c) ==
  /\ c \in annot.calls
  /\ annot' = [annot EXCEPT !.calls = @ \ {c}, !.isRunning = FALSE,
                             !.status = "Error during detection (see console)."]
  /\ AnnotOnly

\* handleStop, lines 205-208 (the Stop button is disabled unless isRunning).
HandleStop ==
  /\ annot.isRunning
  /\ annot' = [annot EXCEPT !.isRunning = FALSE, !.status = "Stopped."]
  /\ AnnotOnly

LoopIds == 1..MaxHandleRuns
LoopFrames == [id : LoopIds, seen : BOOLEAN, frameCount : 0..(PROCESS_EVERY - 1)]
InitAnnotator ==
  /\ HookIdle /\ args = NoCall /\ result = NoCall
  /\ server = Unmounted /\ geom = Unmounted /\ annot = AnnotStart
\* The steps of the component that are ever enabled.
NextAnnotator ==
  \/ ModelLoads
  \/ ModelFails
  \/ HandleFileChange
  \/ LoadedMetadata
  \/ VideoEnds
  \/ \E ctx \in BOOLEAN : HandleRun(ctx)
  \/ \E f \in LoopFrames : FrameCallback(f)
  \/ HandleStop
SpecAnnotator == InitAnnotator /\ [][NextAnnotator]_vars
\* The component with the steps that follow a session.run.
NextAnnotatorAll ==
  \/ NextAnnotator
  \/ \E c \in LoopFrames : SessionRunResolves(c) \/ SessionRunRejects(c)
SpecAnnotatorAll == InitAnnotator /\ [][NextAnnotatorAll]_vars

\* No loop ever reaches session.run.
NoInference == annot.calls = {}

\* C40: a frame callback that comes while the component is running and the
\* video plays keeps the loop going: the loop has requested its next frame
\* or awaits the inference of this frame.
C40_LoopGoesOnWhileRunning ==
  [][ \A f \in LoopFrames :
        (FrameCallback(f) /\ annot.isRunning /\ ~Halted(annot))
          => \E g \in annot'.rafs \cup annot'.calls : g.id = f.id ]_vars

============================================================================
